---- MODULE Spec2Model ----
(***************************************************************************)
(* taipower-discord (src/src/main.rs): a periodic task fetches Taipower    *)
(* generation and load JSON, analyses it and says a report to a channel.   *)
(*                                                                         *)
(* Text is modelled as a sequence of characters, one TLA+ string per       *)
(* character.  The CJK characters of the source are written as ASCII       *)
(* tokens (one token per character): xiao ji = the subtotal marker,        *)
(* feng li = wind, min ying dian chang = private plant, and so on.         *)
(* An f64 is a record [k, n, d]: k = "fin" with the exact rational n/d in  *)
(* lowest terms, k = "inf" with n = 1 or -1, or k = "nan".                 *)
(***************************************************************************)
EXTENDS Integers, Sequences, FiniteSets, TLC

VARIABLES
    pc,         \* per task: where the spawned loop of Handler::ready stands
    i,          \* per task: index into urls of fetch_and_analyze_power_data
    due,        \* per task: ticks of its interval that are due and not consumed
    started,    \* per task: the task has begun at least one loop iteration
    endpoint,   \* per task: what each endpoint delivered in the current run
    text,       \* per task: the body being resolved by the current fetch
    power_analysis, \* per task: result of fetch_and_analyze_power_data
    load_data,  \* per task: Option<LoadData> of the current run
    load_err,   \* per task: the load fetch of the current run returned Err
    message,    \* per task: the message built for the current run
    sent,       \* per task: messages handed to channel_id.say in the latest run
    call,       \* the pure function under test and its stage
    arg,        \* its argument
    ret         \* its result

vars == <<pc, i, due, started, endpoint, text, power_analysis, load_data,
          load_err, message, sent, call, arg, ret>>

taskVars == <<pc, i, due, started, endpoint, text, power_analysis, load_data,
              load_err, message, sent>>

fnVars == <<call, arg, ret>>

(***************************************************************************)
(* Bounds of the model.                                                    *)
(***************************************************************************)
MaxTasks == 2       \* Ready events delivered (each spawns one loop)
MaxDue == 1         \* ticks of one interval that may be pending at once
MaxLen == 3         \* length of the texts given to parse_mw_value
MaxUnits == 2       \* rows of a generation body given to analyze_power_data
MaxRecords == 2     \* records of a load body

(***************************************************************************)
(* Characters and strings.                                                 *)
(***************************************************************************)
Digits == {"0", "1", "2", "3", "4", "5", "6", "7", "8", "9"}

DigitVal(c) ==
    CASE c = "0" -> 0 [] c = "1" -> 1 [] c = "2" -> 2 [] c = "3" -> 3
      [] c = "4" -> 4 [] c = "5" -> 5 [] c = "6" -> 6 [] c = "7" -> 7
      [] c = "8" -> 8 [] c = "9" -> 9

\* char::to_ascii_lowercase on the letters the float grammar looks at
ToLower(c) ==
    CASE c = "I" -> "i" [] c = "N" -> "n" [] c = "F" -> "f" [] c = "A" -> "a"
      [] OTHER -> c

Lower(s) == [j \in 1..Len(s) |-> ToLower(s[j])]

\* str::find(char): index of the first occurrence, 0 when there is none
Find(s, c) ==
    IF \E j \in 1..Len(s) : s[j] = c
    THEN CHOOSE j \in 1..Len(s) : s[j] = c /\ \A m \in 1..(j - 1) : s[m] # c
    ELSE 0

\* str::contains(&str)
Contains(s, sub) ==
    \E j \in 1..(Len(s) - Len(sub) + 1) : SubSeq(s, j, j + Len(sub) - 1) = sub

\* str::split(c).next(): the text before the first c, the whole text without c
SplitFirst(s, c) == IF Find(s, c) = 0 THEN s ELSE SubSeq(s, 1, Find(s, c) - 1)

\* str::replace(c, ""): every occurrence of the character removed
RemoveChar(s, c) == SelectSeq(s, LAMBDA x : x # c)

RECURSIVE Replace(_, _, _)
\* str::replace(from, to): non-overlapping occurrences, left to right
Replace(s, from, to) ==
    IF Len(s) < Len(from) \/ Len(s) = 0 THEN s
    ELSE IF SubSeq(s, 1, Len(from)) = from
         THEN to \o Replace(SubSeq(s, Len(from) + 1, Len(s)), from, to)
         ELSE <<Head(s)>> \o Replace(Tail(s), from, to)

RECURSIVE TrimStart(_)
TrimStart(s) == IF Len(s) > 0 /\ Head(s) = " " THEN TrimStart(Tail(s)) ELSE s

RECURSIVE TrimEnd(_)
TrimEnd(s) ==
    IF Len(s) > 0 /\ s[Len(s)] = " " THEN TrimEnd(SubSeq(s, 1, Len(s) - 1)) ELSE s

\* str::trim
Trim(s) == TrimEnd(TrimStart(s))

RECURSIVE StringsUpTo(_, _)
\* all texts over the characters cs of length at most n
StringsUpTo(cs, n) ==
    IF n = 0 THEN {<<>>}
    ELSE LET shorter == StringsUpTo(cs, n - 1)
         IN shorter \cup {Append(s, c) : s \in shorter, c \in cs}

RECURSIVE SeqsUpTo(_, _)
\* all sequences over the set S of length at most n
SeqsUpTo(S, n) ==
    IF n = 0 THEN {<<>>}
    ELSE LET shorter == SeqsUpTo(S, n - 1)
         IN shorter \cup {Append(s, x) : s \in shorter, x \in S}

(***************************************************************************)
(* f64 values and the arithmetic the program does on them.                 *)
(***************************************************************************)
Abs(x) == IF x < 0 THEN -x ELSE x

RECURSIVE Gcd(_, _)
Gcd(a, b) == IF b = 0 THEN a ELSE Gcd(b, a % b)

RECURSIVE Pow10(_)
Pow10(n) == IF n = 0 THEN 1 ELSE 10 * Pow10(n - 1)

Fin(n, d) ==
    LET g == Gcd(Abs(n), d)
    IN IF n = 0 THEN [k |-> "fin", n |-> 0, d |-> 1]
       ELSE [k |-> "fin", n |-> n \div g, d |-> d \div g]

Inf(sign) == [k |-> "inf", n |-> sign, d |-> 1]

NaN == [k |-> "nan", n |-> 0, d |-> 1]

Zero == Fin(0, 1)

IsFinite(x) == x.k = "fin"

\* a + b
FAdd(a, b) ==
    IF a.k = "nan" \/ b.k = "nan" THEN NaN
    ELSE IF a.k = "inf" /\ b.k = "inf" THEN (IF a.n = b.n THEN a ELSE NaN)
    ELSE IF a.k = "inf" THEN a
    ELSE IF b.k = "inf" THEN b
    ELSE Fin(a.n * b.d + b.n * a.d, a.d * b.d)

Sign(x) == IF x.n < 0 THEN -1 ELSE 1

\* a * b
FMul(a, b) ==
    IF a.k = "nan" \/ b.k = "nan" THEN NaN
    ELSE IF a.k = "inf" \/ b.k = "inf"
         THEN (IF a.n = 0 \/ b.n = 0 THEN NaN ELSE Inf(Sign(a) * Sign(b)))
    ELSE Fin(a.n * b.n, a.d * b.d)

\* a / b
FDiv(a, b) ==
    IF a.k = "nan" \/ b.k = "nan" THEN NaN
    ELSE IF a.k = "inf" THEN (IF b.k = "inf" THEN NaN ELSE Inf(Sign(a) * Sign(b)))
    ELSE IF b.k = "inf" THEN Zero
    ELSE IF b.n = 0 THEN (IF a.n = 0 THEN NaN ELSE Inf(Sign(a)))
    ELSE Fin(a.n * b.d * Sign(b), a.d * Abs(b.n))

\* a > b; every comparison with NaN is false
FGt(a, b) ==
    IF a.k = "nan" \/ b.k = "nan" THEN FALSE
    ELSE IF a.k = "inf" THEN a.n = 1 /\ ~(b.k = "inf" /\ b.n = 1)
    ELSE IF b.k = "inf" THEN b.n = -1
    ELSE a.n * b.d > b.n * a.d

\* f64::partial_cmp(..).unwrap_or(Ordering::Equal)
CmpOrEqual(a, b) ==
    IF FGt(a, b) THEN "Greater" ELSE IF FGt(b, a) THEN "Less" ELSE "Equal"

RECURSIVE DecVal(_)
\* the number a sequence of decimal digits writes
DecVal(ds) ==
    IF Len(ds) = 0 THEN 0
    ELSE 10 * DecVal(SubSeq(ds, 1, Len(ds) - 1)) + DigitVal(ds[Len(ds)])

(***************************************************************************)
(* str::parse::<f64>(): Sign? ( 'inf' | 'infinity' | 'nan' | Number ),     *)
(* the words in any letter case; Number is digits with at most one '.',    *)
(* and at least one digit.  Exponents are not written by the inputs of     *)
(* this model.  The result is [ok, val].                                   *)
(***************************************************************************)
IsNumber(s) ==
    /\ \A j \in 1..Len(s) : s[j] \in Digits \cup {"."}
    /\ Cardinality({j \in 1..Len(s) : s[j] = "."}) <= 1
    /\ \E j \in 1..Len(s) : s[j] \in Digits

NumberVal(s) ==
    LET p == Find(s, ".")
        frac == IF p = 0 THEN 0 ELSE Len(s) - p
    IN Fin(DecVal(RemoveChar(s, ".")), Pow10(frac))

ParseF64(s) ==
    LET signed == Len(s) > 0 /\ s[1] \in {"+", "-"}
        sign == IF signed /\ s[1] = "-" THEN -1 ELSE 1
        body == IF signed THEN Tail(s) ELSE s
    IN IF Lower(body) \in {<<"i", "n", "f">>,
                           <<"i", "n", "f", "i", "n", "i", "t", "y">>}
       THEN [ok |-> TRUE, val |-> Inf(sign)]
       ELSE IF Lower(body) = <<"n", "a", "n">>
       THEN [ok |-> TRUE, val |-> NaN]
       ELSE IF IsNumber(body)
       THEN [ok |-> TRUE, val |-> FMul(Fin(sign, 1), NumberVal(body))]
       ELSE [ok |-> FALSE, val |-> Zero]

\* Result::unwrap_or(0.0)
ParseOrZero(s) == IF ParseF64(s).ok THEN ParseF64(s).val ELSE Zero

\* parse_mw_value, lines 475-479: split('(').next(), then replace(",", "")
Cleaned(value) == RemoveChar(SplitFirst(value, "("), ",")

\* parse_mw_value
parse_mw_value(value) ==
    IF Cleaned(value) = <<"-">> \/ Cleaned(value) = <<"N", "/", "A">>
                                \/ Cleaned(value) = <<>>
    THEN Zero
    ELSE ParseOrZero(Cleaned(value))

(***************************************************************************)
(* Labels of the upstream data (string literals of main.rs).               *)
(***************************************************************************)
Subtotal == <<"xiao", "ji">>                            \* line 389
PrivateMarker == <<"min", "ying", "dian", "chang">>     \* lines 411, 490
PrivatePrefix == PrivateMarker \o <<"-">>               \* line 491
PrivateTag == <<"min", "ying">>                         \* line 491
OtherRenewable == <<"qi", "ta", "zai", "sheng", "neng", "yuan">>  \* line 492
Wind == <<"feng", "li">>                                \* line 500
Solar == <<"tai", "yang", "neng">>                      \* line 500
Hydro == <<"shui", "li">>                               \* line 500
Coal == <<"ran", "mei">>                                \* an upstream type label
EnvLimit == <<"huan", "bao", "xian", "zhi">>            \* line 427
RunLimit == <<"yun", "zhuan", "xian", "zhi">>           \* line 427
Overhaul == <<"sui", "xiu">>                            \* line 428
Repair == <<"jian", "xiu">>                             \* line 428
Fault == <<"gu", "zhang">>                              \* line 429
Unknown == <<"wei", "zhi">>                             \* lines 438, 443

Hundred == Fin(100, 1)

None == [some |-> FALSE, val |-> <<>>]

Some(v) == [some |-> TRUE, val |-> v]

Range(f) == {f[x] : x \in DOMAIN f}

clean_energy_type(energy_type) ==
    IF Contains(energy_type, PrivateMarker)
    THEN Replace(energy_type, PrivatePrefix, PrivateTag)
    ELSE IF Contains(energy_type, OtherRenewable) THEN OtherRenewable
    ELSE energy_type

is_renewable(energy_type) == energy_type \in {Wind, Solar, Hydro, OtherRenewable}

\* the first piece of unit_name.split(&['(', '[', '#'][..])
FirstPart(unit_name) ==
    LET cut == {j \in 1..Len(unit_name) : unit_name[j] \in {"(", "[", "#"}}
    IN IF cut = {} THEN unit_name
       ELSE SubSeq(unit_name, 1, (CHOOSE j \in cut : \A m \in cut : j <= m) - 1)

extract_plant_name(unit_name) ==
    IF Find(unit_name, "#") # 0
    THEN Some(SubSeq(unit_name, 1, Find(unit_name, "#") - 1))
    ELSE IF Contains(unit_name, Subtotal) THEN None
    ELSE Some(Trim(FirstPart(unit_name)))

IsSummaryRow_never(unit) == FALSE

\* analyze_power_data, line 389: the rows the loop skips
IsSummaryRow(unit) == unit.unit_name = Subtotal

\* the rows the loop of analyze_power_data processes, in order
Processed(units) == SelectSeq(units, LAMBDA u : ~IsSummaryRow(u))

RECURSIVE SumGeneration(_)
\* += parse_mw_value(generation) over rows, from 0.0
SumGeneration(rows) ==
    IF Len(rows) = 0 THEN Zero
    ELSE FAdd(SumGeneration(SubSeq(rows, 1, Len(rows) - 1)),
              parse_mw_value(rows[Len(rows)].generation))

RECURSIVE SumCapacity(_)
SumCapacity(rows) ==
    IF Len(rows) = 0 THEN Zero
    ELSE FAdd(SumCapacity(SubSeq(rows, 1, Len(rows) - 1)),
              parse_mw_value(rows[Len(rows)].capacity))

total_generation(units) == SumGeneration(Processed(units))

estimated_max_generation(units) == SumCapacity(Processed(units))

generation_by_type(units) ==
    LET rows == Processed(units)
    IN [ty \in {clean_energy_type(u.unit_type) : u \in Range(rows)} |->
           SumGeneration(SelectSeq(rows,
               LAMBDA u : clean_energy_type(u.unit_type) = ty))]

renewable_generation(units) ==
    SumGeneration(SelectSeq(Processed(units),
        LAMBDA u : is_renewable(clean_energy_type(u.unit_type))))

private_generation(units) ==
    SumGeneration(SelectSeq(Processed(units),
        LAMBDA u : Contains(u.unit_type, PrivateMarker)))

plant_generation(units) ==
    LET rows == SelectSeq(Processed(units),
                    LAMBDA u : extract_plant_name(u.unit_name).some)
    IN [p \in {extract_plant_name(u.unit_name).val : u \in Range(rows)} |->
           SumGeneration(SelectSeq(rows,
               LAMBDA u : extract_plant_name(u.unit_name).val = p))]

\* HashMap::insert: the last row of a name decides
unit_generation(units) ==
    LET rows == SelectSeq(Processed(units),
                    LAMBDA u : /\ FGt(parse_mw_value(u.generation), Zero)
                               /\ ~Contains(u.unit_name, Subtotal))
        last(nm) == CHOOSE j \in 1..Len(rows) :
                        /\ rows[j].unit_name = nm
                        /\ \A m \in (j + 1)..Len(rows) : rows[m].unit_name # nm
    IN [nm \in {u.unit_name : u \in Range(rows)} |->
           parse_mw_value(rows[last(nm)].generation)]

\* the match on unit.remark, lines 426-431: the first arm that matches
RemarkClass(remark) ==
    IF Contains(remark, EnvLimit) \/ Contains(remark, RunLimit) THEN "environmental"
    ELSE IF Contains(remark, Overhaul) \/ Contains(remark, Repair) THEN "maintenance"
    ELSE IF Contains(remark, Fault) THEN "fault"
    ELSE "none"

CountRemarks(units, class) ==
    LET rows == Processed(units)
    IN Cardinality({j \in 1..Len(rows) : RemarkClass(rows[j].remark) = class})

RECURSIVE FoldMax(_, _)
\* Iterator::max_by: keeps the held entry only when it compares Greater
FoldMax(best, rest) ==
    IF Len(rest) = 0 THEN best
    ELSE FoldMax(IF CmpOrEqual(best[2], Head(rest)[2]) = "Greater"
                 THEN best ELSE Head(rest),
                 Tail(rest))

\* the orders in which HashMap::into_iter may yield the entries of map
IterOrders(map) ==
    LET n == Cardinality(DOMAIN map)
    IN {[j \in 1..n |-> <<o[j], map[o[j]]>>] :
           o \in {q \in [1..n -> DOMAIN map] :
                     \A a, b \in 1..n : a # b => q[a] # q[b]}}

\* into_iter().max_by(..).unwrap_or((unknown, 0.0)): every result the
\* unspecified iteration order allows
TopChoices(map) ==
    IF DOMAIN map = {} THEN {<<Unknown, Zero>>}
    ELSE {FoldMax(Head(o), Tail(o)) : o \in IterOrders(map)}

RatioGuard_nonzero(total) == total # Zero

\* lines 446, 452: if total_generation > 0.0
RatioGuard(total) == FGt(total, Zero)

\* lines 446-456
Ratio(part, total) ==
    IF RatioGuard(total) THEN FMul(FDiv(part, total), Hundred) ELSE Zero

\* analyze_power_data: the set of results it may return (one per choice of
\* the two HashMap iteration orders)
analyze_power_data(units, date_time) ==
    LET total == total_generation(units)
        rest == [update_time |-> date_time,
                 total_generation |-> total,
                 estimated_max_generation |-> estimated_max_generation(units),
                 generation_by_type |-> generation_by_type(units),
                 environmental_restrictions |-> CountRemarks(units, "environmental"),
                 maintenance_count |-> CountRemarks(units, "maintenance"),
                 fault_count |-> CountRemarks(units, "fault"),
                 renewable_ratio |-> Ratio(renewable_generation(units), total),
                 private_ratio |-> Ratio(private_generation(units), total)]
    IN {rest @@ [top_plant |-> tp, top_unit |-> tu] :
           tp \in TopChoices(plant_generation(units)),
           tu \in TopChoices(unit_generation(units))}

(***************************************************************************)
(* Load data: LoadRecord as a function from field to Option<String>.       *)
(***************************************************************************)
NumericFields ==
    {"curr_load", "curr_util_rate", "fore_maxi_sply_capacity",
     "fore_peak_dema_load", "fore_peak_resv_capacity", "fore_peak_resv_rate",
     "yday_maxi_sply_capacity", "yday_peak_dema_load",
     "yday_peak_resv_capacity", "yday_peak_resv_rate",
     "real_hr_maxi_sply_capacity"}

TextFields ==
    {"fore_peak_resv_indicator", "fore_peak_hour_range", "publish_time",
     "yday_peak_resv_indicator", "real_hr_peak_time"}

\* yday_date is deserialized (line 80) and never read
LoadFields == NumericFields \cup TextFields

\* lines 232-274: `.parse().unwrap_or(0.0)` on the field's text
LoadNumber(s) == ParseOrZero(s)

\* index of the last record in which field f is present, 0 when in none
LastPresent(records, f) ==
    IF \E j \in 1..Len(records) : records[j][f].some
    THEN CHOOSE j \in 1..Len(records) :
             /\ records[j][f].some
             /\ \A m \in (j + 1)..Len(records) : ~records[m][f].some
    ELSE 0

\* fetch_load_data, lines 213-298: the LoadData built from the records
LoadData(records) ==
    [f \in LoadFields |->
        IF LastPresent(records, f) = 0
        THEN (IF f \in NumericFields THEN Zero ELSE <<>>)
        ELSE IF f \in NumericFields
             THEN LoadNumber(records[LastPresent(records, f)][f].val)
             ELSE records[LastPresent(records, f)][f].val]

(***************************************************************************)
(* The tasks spawned by Handler::ready.                                    *)
(***************************************************************************)
Tasks == 1..MaxTasks

Urls == 1..3        \* positions in the vector urls, lines 303-307

NoAnalysis == [kind |-> "none"]

NoMessage == [kind |-> "none"]

NoText == [kind |-> "none"]

\* no task has been spawned: the state before the first Ready event
TasksIdle ==
    /\ pc = [t \in Tasks |-> "unspawned"]
    /\ i = [t \in Tasks |-> 0]
    /\ due = [t \in Tasks |-> 0]
    /\ started = [t \in Tasks |-> FALSE]
    /\ endpoint = [t \in Tasks |-> [u \in Urls |-> "none"]]
    /\ text = [t \in Tasks |-> NoText]
    /\ power_analysis = [t \in Tasks |-> NoAnalysis]
    /\ load_data = [t \in Tasks |-> None]
    /\ load_err = [t \in Tasks |-> FALSE]
    /\ message = [t \in Tasks |-> NoMessage]
    /\ sent = [t \in Tasks |-> <<>>]

(***************************************************************************)
(* Response bodies of the generation endpoints.  kind and keys say what    *)
(* serde_json finds; boundary says whether byte min(200, len) of the text  *)
(* is a char boundary (line 327 slices the text there).                    *)
(***************************************************************************)
BodyKeys == {"DateTime", "aaData", "datas"}

Bodies ==
    {[kind |-> "object", keys |-> ks, boundary |-> b] :
        ks \in SUBSET BodyKeys, b \in BOOLEAN}
    \cup {[kind |-> kd, keys |-> {}, boundary |-> b] :
        kd \in {"array", "garbage"}, b \in BOOLEAN}

BodyDateTime == <<"T", "1">>    \* the DateTime a body carries

Now == <<"n", "o", "w">>        \* chrono::Utc::now(), formatted

\* the rows a body carries: wind 5 MW and coal 15 MW
SampleUnits ==
    <<[unit_type |-> Wind, unit_name |-> <<"A", "#", "1">>,
       capacity |-> <<"2", "0">>, generation |-> <<"5">>, remark |-> <<>>],
      [unit_type |-> Coal, unit_name |-> <<"B", "#", "1">>,
       capacity |-> <<"2", "0">>, generation |-> <<"1", "5">>, remark |-> <<>>]>>

\* the records a load body carries
SampleRecords == <<[f \in LoadFields |->
                      IF f \in NumericFields THEN Some(<<"2", ".", "5">>)
                      ELSE Some(<<"G">>)]>>

\* serde_json::from_str::<PowerData>, line 330
IsPowerData(body) ==
    body.kind = "object" /\ {"DateTime", "aaData"} \subseteq body.keys

\* serde_json::from_str::<AlternativePowerData>, line 335
IsAlternativePowerData(body) == body.kind = "object" /\ "datas" \in body.keys

\* serde_json::from_str::<Vec<PowerUnit>>, line 340
IsUnitArray(body) == body.kind = "array"

ResolveShape_alternative_first(body) ==
    IF IsAlternativePowerData(body) THEN "b"
    ELSE IF IsPowerData(body) THEN "a"
    ELSE IF IsUnitArray(body) THEN "c"
    ELSE "none"

\* lines 329-346: the first of the three parses that succeeds
ResolveShape(body) ==
    IF IsPowerData(body) THEN "a"
    ELSE IF IsAlternativePowerData(body) THEN "b"
    ELSE IF IsUnitArray(body) THEN "c"
    ELSE "none"

\* the date_time handed to analyze_power_data, lines 331, 342, 367, 371
ShapeDateTime(shape) == IF shape = "a" THEN BodyDateTime ELSE Now

\* format_combined_power_message: the load section is there when load_data
\* is Some, the generation section always
format_combined_power_message(analysis, load) ==
    [kind |-> "report", load |-> load, generation |-> analysis]

\* line 161
ErrorMessage(cause) == [kind |-> "error", cause |-> cause]

InRun(t) ==
    pc[t] \in {"send", "body", "text", "fetched", "load_send", "load_body",
               "say", "say_error"}

(***************************************************************************)
(* Handler::ready and the loop it spawns.                                  *)
(***************************************************************************)
\* a Ready event of the gateway: tokio::spawn of one more loop, whose
\* interval completes its first tick at once
Ready(t) ==
    /\ pc[t] = "unspawned"
    /\ \A s \in Tasks : s < t => pc[s] # "unspawned"
    /\ pc' = [pc EXCEPT ![t] = "tick"]
    /\ due' = [due EXCEPT ![t] = 1]
    /\ UNCHANGED <<i, started, endpoint, text, power_analysis, load_data,
                   load_err, message, sent, fnVars>>

\* 600 s pass on the interval of task t: one more tick is due
TickDue(t) ==
    /\ pc[t] \notin {"unspawned", "panicked"}
    /\ due[t] < MaxDue
    /\ due' = [due EXCEPT ![t] = due[t] + 1]
    /\ UNCHANGED <<pc, i, started, endpoint, text, power_analysis, load_data,
                   load_err, message, sent, fnVars>>

\* interval.tick().await completes; fetch_and_analyze_power_data builds its
\* client (lines 309-312, `?`) and sends the first request
Tick(t) ==
    /\ pc[t] = "tick"
    /\ due[t] > 0
    /\ due' = [due EXCEPT ![t] = due[t] - 1]
    /\ started' = [started EXCEPT ![t] = TRUE]
    /\ sent' = [sent EXCEPT ![t] = <<>>]
    /\ \E built \in BOOLEAN :
          IF built
          THEN /\ pc' = [pc EXCEPT ![t] = "send"]
               /\ i' = [i EXCEPT ![t] = 1]
               /\ UNCHANGED power_analysis
          ELSE /\ pc' = [pc EXCEPT ![t] = "fetched"]
               /\ power_analysis' = [power_analysis EXCEPT ![t] =
                                        [kind |-> "err", cause |-> "build"]]
               /\ UNCHANGED i
    /\ UNCHANGED <<endpoint, text, load_data, load_err, message, fnVars>>

Continue_skip(t) ==
    /\ endpoint' = [endpoint EXCEPT ![t][i[t]] = "failed"]
    /\ IF i[t] + 2 <= 3
       THEN /\ i' = [i EXCEPT ![t] = i[t] + 2]
            /\ pc' = [pc EXCEPT ![t] = "send"]
            /\ UNCHANGED power_analysis
       ELSE /\ pc' = [pc EXCEPT ![t] = "fetched"]
            /\ power_analysis' = [power_analysis EXCEPT ![t] =
                                     [kind |-> "err", cause |-> "exhausted"]]
            /\ UNCHANGED i

\* `continue` (lines 321, 352, 358) or the end of the loop body (line 348):
\* the next url is requested, and after the last one line 363 returns Err
Continue(t) ==
    /\ endpoint' = [endpoint EXCEPT ![t][i[t]] = "failed"]
    /\ IF i[t] < 3
       THEN /\ i' = [i EXCEPT ![t] = i[t] + 1]
            /\ pc' = [pc EXCEPT ![t] = "send"]
            /\ UNCHANGED power_analysis
       ELSE /\ pc' = [pc EXCEPT ![t] = "fetched"]
            /\ power_analysis' = [power_analysis EXCEPT ![t] =
                                     [kind |-> "err", cause |-> "exhausted"]]
            /\ UNCHANGED i

\* client.get(url).send() returns Err (transport error, timeout): line 356
SendErr(t) ==
    /\ pc[t] = "send"
    /\ Continue(t)
    /\ UNCHANGED <<due, started, text, load_data, load_err, message, sent, fnVars>>

\* a response whose status is not 2xx: lines 319-322
SendStatus(t) ==
    /\ pc[t] = "send"
    /\ Continue(t)
    /\ UNCHANGED <<due, started, text, load_data, load_err, message, sent, fnVars>>

\* a 2xx response: response.text() is awaited
SendOk(t) ==
    /\ pc[t] = "send"
    /\ pc' = [pc EXCEPT ![t] = "body"]
    /\ UNCHANGED <<i, due, started, endpoint, text, power_analysis, load_data,
                   load_err, message, sent, fnVars>>

\* response.text() returns Err: lines 350-353
TextErr(t) ==
    /\ pc[t] = "body"
    /\ Continue(t)
    /\ UNCHANGED <<due, started, text, load_data, load_err, message, sent, fnVars>>

\* response.text() returns the body: line 325
TextOk(t) ==
    /\ pc[t] = "body"
    /\ \E b \in Bodies : text' = [text EXCEPT ![t] = b]
    /\ pc' = [pc EXCEPT ![t] = "text"]
    /\ UNCHANGED <<i, due, started, endpoint, power_analysis, load_data,
                   load_err, message, sent, fnVars>>

\* line 327: &text[..min(200, text.len())] off a char boundary panics; the
\* panic unwinds the spawned task, whose loop is gone
PreviewPanics(t) ==
    /\ pc[t] = "text"
    /\ ~text[t].boundary
    /\ pc' = [pc EXCEPT ![t] = "panicked"]
    /\ UNCHANGED <<i, due, started, endpoint, text, power_analysis, load_data,
                   load_err, message, sent, fnVars>>

\* lines 329-346: a shape parses and the analysis of its rows is returned
Resolves(t) ==
    /\ pc[t] = "text"
    /\ text[t].boundary
    /\ ResolveShape(text[t]) # "none"
    /\ \E a \in analyze_power_data(SampleUnits,
                                   ShapeDateTime(ResolveShape(text[t]))) :
          power_analysis' = [power_analysis EXCEPT ![t] =
                                [kind |-> "ok", analysis |-> a]]
    /\ endpoint' = [endpoint EXCEPT ![t][i[t]] = "resolved"]
    /\ pc' = [pc EXCEPT ![t] = "fetched"]
    /\ UNCHANGED <<i, due, started, text, load_data, load_err, message, sent,
                   fnVars>>

\* line 348: no shape parses
Unparsed(t) ==
    /\ pc[t] = "text"
    /\ text[t].boundary
    /\ ResolveShape(text[t]) = "none"
    /\ Continue(t)
    /\ UNCHANGED <<due, started, text, load_data, load_err, message, sent, fnVars>>

\* lines 159-166: the Err arm says the error notice
MatchErr(t) ==
    /\ pc[t] = "fetched"
    /\ power_analysis[t].kind = "err"
    /\ message' = [message EXCEPT ![t] = ErrorMessage(power_analysis[t].cause)]
    /\ sent' = [sent EXCEPT ![t] = Append(sent[t], "error")]
    /\ pc' = [pc EXCEPT ![t] = "say_error"]
    /\ i' = [i EXCEPT ![t] = 0]
    /\ endpoint' = [endpoint EXCEPT ![t] = [u \in Urls |-> "none"]]
    /\ text' = [text EXCEPT ![t] = NoText]
    /\ UNCHANGED <<due, started, power_analysis, load_data, load_err, fnVars>>

LoadFailed_abort(t) ==
    /\ load_err' = [load_err EXCEPT ![t] = TRUE]
    /\ load_data' = [load_data EXCEPT ![t] = None]
    /\ message' = [message EXCEPT ![t] = ErrorMessage("load")]
    /\ sent' = [sent EXCEPT ![t] = Append(sent[t], "error")]
    /\ pc' = [pc EXCEPT ![t] = "say_error"]

\* lines 171-185: fetch_load_data returned Err; load_data is None, the
\* report is formatted and said
LoadFailed(t) ==
    /\ load_err' = [load_err EXCEPT ![t] = TRUE]
    /\ load_data' = [load_data EXCEPT ![t] = None]
    /\ message' = [message EXCEPT ![t] =
                      format_combined_power_message(power_analysis[t].analysis, None)]
    /\ sent' = [sent EXCEPT ![t] = Append(sent[t], "report")]
    /\ pc' = [pc EXCEPT ![t] = "say"]

\* line 158: the Ok arm; fetch_load_data builds its client (lines 194-197)
\* and sends its request
MatchOk(t) ==
    /\ pc[t] = "fetched"
    /\ power_analysis[t].kind = "ok"
    /\ i' = [i EXCEPT ![t] = 0]
    /\ endpoint' = [endpoint EXCEPT ![t] = [u \in Urls |-> "none"]]
    /\ text' = [text EXCEPT ![t] = NoText]
    /\ \E built \in BOOLEAN :
          IF built
          THEN /\ pc' = [pc EXCEPT ![t] = "load_send"]
               /\ UNCHANGED <<load_data, load_err, message, sent>>
          ELSE LoadFailed(t)
    /\ UNCHANGED <<due, started, power_analysis, fnVars>>

\* line 201: send() returns Err
LoadSendErr(t) ==
    /\ pc[t] = "load_send"
    /\ LoadFailed(t)
    /\ UNCHANGED <<i, due, started, endpoint, text, power_analysis, fnVars>>

\* lines 203-205: a status that is not 2xx, such as 500
LoadStatus(t) ==
    /\ pc[t] = "load_send"
    /\ LoadFailed(t)
    /\ UNCHANGED <<i, due, started, endpoint, text, power_analysis, fnVars>>

\* a 2xx response: response.text() is awaited
LoadSendOk(t) ==
    /\ pc[t] = "load_send"
    /\ pc' = [pc EXCEPT ![t] = "load_body"]
    /\ UNCHANGED <<i, due, started, endpoint, text, power_analysis, load_data,
                   load_err, message, sent, fnVars>>

\* line 207: text() returns Err
LoadTextErr(t) ==
    /\ pc[t] = "load_body"
    /\ LoadFailed(t)
    /\ UNCHANGED <<i, due, started, endpoint, text, power_analysis, fnVars>>

\* line 210: the body does not decode as LoadDataResponse
LoadDecodeErr(t) ==
    /\ pc[t] = "load_body"
    /\ LoadFailed(t)
    /\ UNCHANGED <<i, due, started, endpoint, text, power_analysis, fnVars>>

\* lines 210-298 and 170-185: the body decodes, LoadData is built, the
\* report is formatted and said
LoadOk(t) ==
    /\ pc[t] = "load_body"
    /\ load_data' = [load_data EXCEPT ![t] = Some(LoadData(SampleRecords))]
    /\ message' = [message EXCEPT ![t] =
                      format_combined_power_message(power_analysis[t].analysis,
                                                    Some(LoadData(SampleRecords)))]
    /\ sent' = [sent EXCEPT ![t] = Append(sent[t], "report")]
    /\ pc' = [pc EXCEPT ![t] = "say"]
    /\ UNCHANGED <<i, due, started, endpoint, text, power_analysis, load_err,
                   fnVars>>

\* channel_id.say returns, Ok or Err (the Err is printed, lines 162-164 and
\* 183-185); the iteration ends and the loop awaits the next tick
SayDone(t) ==
    /\ pc[t] \in {"say", "say_error"}
    /\ \E delivered \in BOOLEAN : TRUE
    /\ pc' = [pc EXCEPT ![t] = "tick"]
    /\ power_analysis' = [power_analysis EXCEPT ![t] = NoAnalysis]
    /\ load_data' = [load_data EXCEPT ![t] = None]
    /\ load_err' = [load_err EXCEPT ![t] = FALSE]
    /\ message' = [message EXCEPT ![t] = NoMessage]
    /\ UNCHANGED <<i, due, started, endpoint, text, sent, fnVars>>

Step(t) ==
    \/ Ready(t) \/ TickDue(t) \/ Tick(t)
    \/ SendErr(t) \/ SendStatus(t) \/ SendOk(t)
    \/ TextErr(t) \/ TextOk(t)
    \/ PreviewPanics(t) \/ Resolves(t) \/ Unparsed(t)
    \/ MatchErr(t) \/ MatchOk(t)
    \/ LoadSendErr(t) \/ LoadStatus(t) \/ LoadSendOk(t)
    \/ LoadTextErr(t) \/ LoadDecodeErr(t) \/ LoadOk(t)
    \/ SayDone(t)

Init ==
    /\ TasksIdle
    /\ call = "idle"
    /\ arg = <<>>
    /\ ret = <<>>

Next == \E t \in Tasks : Step(t)

\* every Ready event the gateway delivers, each with its own loop
Spec == Init /\ [][Next]_vars

NextTask == Step(1)

\* one Ready event: the loop of a single task
SpecTask == Init /\ [][NextTask]_vars

(***************************************************************************)
(* parse_mw_value applied to every text of a bounded alphabet.             *)
(***************************************************************************)
ParseChars == {"1", "5", ",", "(", ".", "-", "i", "n", "f", "a", "N", "/", "A"}

InitParse ==
    /\ TasksIdle
    /\ call = "called"
    /\ arg \in StringsUpTo(ParseChars, MaxLen)
    /\ ret = <<>>

ParseMwValue ==
    /\ call = "called"
    /\ ret' = parse_mw_value(arg)
    /\ call' = "returned"
    /\ UNCHANGED <<arg, taskVars>>

NextParse == ParseMwValue

SpecParse == InitParse /\ [][NextParse]_vars

(***************************************************************************)
(* analyze_power_data applied to every list of bounded rows.               *)
(***************************************************************************)
\* unit name, capacity and remark of the rows: a subtotal row and two units
UnitRows ==
    {[unit_name |-> Subtotal, capacity |-> <<"1", ",", "5">>, remark |-> Overhaul],
     [unit_name |-> <<"A", "#", "1">>, capacity |-> <<"2", "0">>, remark |-> <<>>],
     [unit_name |-> <<"B", "#", "1">>, capacity |-> <<"2", "0">>, remark |-> Fault]}

UnitTypes == {Wind, Coal, PrivatePrefix \o Coal}

MwTexts == {<<"1", "0">>, <<"-", "5">>, <<"n", "a", "n">>}

\* PowerUnit; its field ratio (line 41) is never read
PowerUnits ==
    {[unit_type |-> ty, unit_name |-> row.unit_name, capacity |-> row.capacity,
      generation |-> g, remark |-> row.remark] :
        ty \in UnitTypes, row \in UnitRows, g \in MwTexts}

DateTimes == {<<"T", "1">>}

InitAnalyze ==
    /\ TasksIdle
    /\ call = "called"
    /\ arg \in [units : SeqsUpTo(PowerUnits, MaxUnits), date_time : DateTimes]
    /\ ret = <<>>

AnalyzePowerData ==
    /\ call = "called"
    /\ ret' \in analyze_power_data(arg.units, arg.date_time)
    /\ call' = "returned"
    /\ UNCHANGED <<arg, taskVars>>

NextAnalyze == AnalyzePowerData

SpecAnalyze == InitAnalyze /\ [][NextAnalyze]_vars

(***************************************************************************)
(* The record loop of fetch_load_data applied to bounded record lists.     *)
(***************************************************************************)
LoadTexts == {<<"2", ".", "5">>, <<"1", ",", "5">>, <<"5", "(", "1">>, <<"-">>}

LoadLabels == {<<"G">>}

PresentSets == {{}, LoadFields} \cup {{f} : f \in LoadFields}

\* LoadRecord with the fields of present set, numeric ones holding s
LoadRecord(present, s, x) ==
    [f \in LoadFields |->
        IF f \notin present THEN None
        ELSE IF f \in NumericFields THEN Some(s) ELSE Some(x)]

LoadRecords ==
    {LoadRecord(p, s, x) : p \in PresentSets, s \in LoadTexts, x \in LoadLabels}

InitLoad ==
    /\ TasksIdle
    /\ call = "called"
    /\ arg \in SeqsUpTo(LoadRecords, MaxRecords)
    /\ ret = <<>>

BuildLoadData ==
    /\ call = "called"
    /\ ret' = LoadData(arg)
    /\ call' = "returned"
    /\ UNCHANGED <<arg, taskVars>>

NextLoad == BuildLoadData

SpecLoad == InitLoad /\ [][NextLoad]_vars

(***************************************************************************)
(* C1.  The three endpoints are contacted in list order: endpoint u is     *)
(* contacted only when every endpoint before it has failed, and once the   *)
(* body of an endpoint resolves the analysis of that body is what the      *)
(* fetch returns and no later endpoint is contacted.                       *)
(***************************************************************************)
Contacted(t, u) ==
    \/ endpoint[t][u] # "none"
    \/ pc[t] \in {"send", "body", "text", "panicked"} /\ i[t] = u

C1_EndpointsInListOrder ==
    \A t \in Tasks : \A u \in Urls :
        /\ Contacted(t, u) => \A v \in 1..(u - 1) : endpoint[t][v] = "failed"
        /\ endpoint[t][u] = "resolved" =>
              /\ pc[t] = "fetched"
              /\ power_analysis[t].kind = "ok"
              /\ \E ts \in {BodyDateTime, Now} :
                    power_analysis[t].analysis \in analyze_power_data(SampleUnits, ts)
              /\ \A v \in (u + 1)..3 : ~Contacted(t, v)

\* the third endpoint resolved after the first two failed
C1_Witness ==
    \E t \in Tasks :
        /\ endpoint[t] = <<"failed", "failed", "resolved">>
        /\ power_analysis[t].kind = "ok"

(***************************************************************************)
(* C2.  The fetch returns the 'all endpoints failed' error if and only if  *)
(* every one of the three endpoints failed.  An endpoint failed when its   *)
(* request or its body could not be had, its status was not 2xx, or its    *)
(* body matches none of the three shapes.  The code does not keep the 'if' *)
(* half: a body that matches no shape and whose byte 200 is inside a       *)
(* character panics the task at line 327 before any error is returned.     *)
(***************************************************************************)
MatchesNoShape(body) ==
    /\ ~(body.kind = "object" /\ {"DateTime", "aaData"} \subseteq body.keys)
    /\ ~(body.kind = "object" /\ "datas" \in body.keys)
    /\ body.kind # "array"

EndpointFailed(t, u) ==
    \/ endpoint[t][u] = "failed"
    \/ pc[t] = "panicked" /\ i[t] = u /\ MatchesNoShape(text[t])

C2_ErrorIffAllEndpointsFailed ==
    \A t \in Tasks :
        pc[t] \in {"send", "body", "text", "fetched", "panicked"} =>
            (power_analysis[t] = [kind |-> "err", cause |-> "exhausted"]
                <=> \A u \in Urls : EndpointFailed(t, u))

(***************************************************************************)
(* C3.  When the generation fetch has succeeded and the load fetch fails   *)
(* (client, transport, status, body or decoding), the load summary is      *)
(* absent and the generation report is what is rendered and handed to the  *)
(* chat delivery: never an error notice, never nothing.                    *)
(***************************************************************************)
C3_LoadFailureKeepsReport ==
    \A t \in Tasks :
        load_err[t] =>
            /\ pc[t] = "say"
            /\ power_analysis[t].kind = "ok"
            /\ load_data[t] = None
            /\ message[t] = [kind |-> "report", load |-> None,
                             generation |-> power_analysis[t].analysis]
            /\ sent[t] = <<"report">>

C3_Witness == \E t \in Tasks : load_err[t] /\ pc[t] = "say"

(***************************************************************************)
(* C4.  At most one pipeline run is in progress at any time, whatever the  *)
(* Ready events and ticks.  The code does not keep it: every Ready event   *)
(* spawns one more loop with its own interval, and their runs interleave.  *)
(***************************************************************************)
C4_AtMostOneRunInProgress == Cardinality({t \in Tasks : InRun(t)}) <= 1

(***************************************************************************)
(* C5.  A run that was started by a tick and is over has made exactly one  *)
(* chat-delivery attempt.  The code does not keep it: the panic of line    *)
(* 327 ends the run, and the loop, with no message said.                   *)
(***************************************************************************)
C5_EndedRunSaidOnce ==
    \A t \in Tasks :
        (started[t] /\ ~InRun(t)) => Len(sent[t]) = 1

C6_ParseReturnsFinite == call = "returned" => IsFinite(ret)

(***************************************************************************)
(* C7.  Rows whose unit name is the subtotal marker change no aggregate:   *)
(* analyze_power_data returns for a list what it returns for the list with *)
(* those rows removed (whatever the iteration order of the two maps).      *)
(***************************************************************************)
WithoutSubtotals(units) == SelectSeq(units, LAMBDA u : u.unit_name # Subtotal)

C7_SubtotalRowsExcluded ==
    call = "returned" =>
        LET full == analyze_power_data(arg.units, arg.date_time)
            kept == analyze_power_data(WithoutSubtotals(arg.units), arg.date_time)
        IN ret \in kept /\ full = kept

\* a subtotal row carrying generation stands beside a real row
C7_Witness ==
    /\ call = "returned"
    /\ \E j, m \in 1..Len(arg.units) :
           /\ arg.units[j].unit_name = Subtotal
           /\ arg.units[j].generation = <<"1", "0">>
           /\ arg.units[m].unit_name # Subtotal
           /\ arg.units[m].generation = <<"-", "5">>
    /\ ret.total_generation = Fin(-5, 1)
    /\ ret.maintenance_count = 0

(***************************************************************************)
(* C8.  The ratios.  r is part / total * 100 for finite values when        *)
(* r * total = part * 100.                                                 *)
(***************************************************************************)
RatioIs(r, part, total) ==
    /\ IsFinite(r)
    /\ r.n * total.n * part.d = 100 * part.n * total.d * r.d

\* C8 as stated: ratios are 0.0 when the total is 0.0, and otherwise (here:
\* for every other finite total) each ratio is accumulated / total * 100.
C8_RatiosZeroOnlyAtZeroTotal ==
    call = "returned" =>
        LET total == total_generation(arg.units)
        IN /\ total = Zero =>
                 ret.renewable_ratio = Zero /\ ret.private_ratio = Zero
           /\ (IsFinite(total) /\ total # Zero) =>
                 /\ RatioIs(ret.renewable_ratio, renewable_generation(arg.units), total)
                 /\ RatioIs(ret.private_ratio, private_generation(arg.units), total)

\* C8 amended: the ratios are exactly 0.0 whenever the total generation is
\* not greater than 0.0 (zero, negative, or NaN); when it is greater than
\* 0.0 and finite each ratio is accumulated / total * 100.
C8_RatiosZeroUnlessPositiveTotal ==
    call = "returned" =>
        LET total == total_generation(arg.units)
        IN /\ ~FGt(total, Zero) =>
                 ret.renewable_ratio = Zero /\ ret.private_ratio = Zero
           /\ (IsFinite(total) /\ FGt(total, Zero)) =>
                 /\ RatioIs(ret.renewable_ratio, renewable_generation(arg.units), total)
                 /\ RatioIs(ret.private_ratio, private_generation(arg.units), total)

\* a negative total with renewable generation in it
C8_Witness ==
    /\ call = "returned"
    /\ total_generation(arg.units) = Fin(-5, 1)
    /\ renewable_generation(arg.units) = Fin(-5, 1)
    /\ ret.renewable_ratio = Zero

(***************************************************************************)
(* C9.  Every numeric field of the load summary is parse_mw_value of the   *)
(* text of the field (of the last record that holds it), 0.0 when no       *)
(* record holds it; every textual field is that text, empty when absent.   *)
(* The code parses the text with str::parse alone, so a text with a        *)
(* thousands separator or a parenthetical suffix gives 0.0.                *)
(***************************************************************************)
C9_LoadFieldsThroughValueParser ==
    call = "returned" =>
        \A f \in LoadFields :
            LET j == LastPresent(arg, f)
            IN IF f \in NumericFields
               THEN ret[f] = (IF j = 0 THEN Zero ELSE parse_mw_value(arg[j][f].val))
               ELSE ret[f] = (IF j = 0 THEN <<>> ELSE arg[j][f].val)

(***************************************************************************)
(* C11.  The top plant is a recorded plant whose summed generation is the  *)
(* maximum over the recorded plants, and it is the sentinel (unknown, 0.0) *)
(* exactly when no plant was recorded; the top unit is selected the same   *)
(* way over the per-unit map.  An entry is the maximum of a map when it is *)
(* an entry of the map and its value is greater than or equal to the       *)
(* value of every other entry.  A plant whose sum is NaN compares Equal    *)
(* to every other plant in max_by, so it may be returned over a plant      *)
(* that generates.                                                         *)
(***************************************************************************)
FGe(a, b) == FGt(a, b) \/ (a = b /\ a.k # "nan")

IsMaximumOf(top, map) ==
    /\ top[1] \in DOMAIN map
    /\ top[2] = map[top[1]]
    /\ \A q \in DOMAIN map \ {top[1]} : FGe(top[2], map[q])

TopSelected(top, map) ==
    /\ DOMAIN map # {} => IsMaximumOf(top, map)
    /\ top = <<Unknown, Zero>> <=> DOMAIN map = {}

C11_TopIsMaximum ==
    call = "returned" =>
        /\ TopSelected(ret.top_plant, plant_generation(arg.units))
        /\ TopSelected(ret.top_unit, unit_generation(arg.units))

(***************************************************************************)
(* C12.  A tick that falls due while a run is in progress is skipped: when *)
(* the run ends and the loop comes back to interval.tick(), no tick is     *)
(* pending, so the next run waits for a later period to pass.  The         *)
(* interval of line 151 keeps the default behaviour for missed ticks, so   *)
(* the tick stays pending and the next run starts at once.                 *)
(***************************************************************************)
C12_MissedTickSkipped ==
    [][\A t \in Tasks : (InRun(t) /\ pc'[t] = "tick") => due'[t] = 0]_vars

(***************************************************************************)
(* C13.  No response body can stop the pipeline: once the body of a 2xx    *)
(* response has been read, the step the fetch takes on it either returns   *)
(* an analysis, or goes on to the next endpoint (after the last one, to    *)
(* the error that all endpoints failed), and the loop is never lost.  The  *)
(* code does not keep it: the preview of line 327 slices the text at byte  *)
(* min(200, len), which panics inside a multi-byte character, and the      *)
(* panic ends the spawned loop.                                            *)
(***************************************************************************)
C13_NoBodyStopsPipeline ==
    [][\A t \in Tasks :
          (pc[t] = "text" /\ pc'[t] # "text") =>
              \/ pc'[t] = "fetched" /\ power_analysis'[t].kind = "ok"
              \/ pc'[t] = "send" /\ i'[t] = i[t] + 1
              \/ /\ i[t] = 3
                 /\ pc'[t] = "fetched"
                 /\ power_analysis'[t] = [kind |-> "err", cause |-> "exhausted"]]_vars

====
